---- MODULE Spec2Model ----
(***************************************************************************)
(* Model of src/mcp_client.py: the MCP weather client that sends JSON-RPC  *)
(* requests by HTTP POST and receives the responses on a server-sent-event *)
(* stream, correlated by request id through one shared queue.              *)
(*                                                                         *)
(* Threads: the SSE reader (sse_listener), the constructing thread         *)
(* (_start_sse_connection / _initialize_mcp) and the calling threads       *)
(* (query_current_weather / query_weather_forecast -> _call_tool).         *)
(*                                                                         *)
(* Time is counted in poll periods: every loop iteration of the code ends  *)
(* with time.sleep(0.1), which advances the waiter's elapsed time by one   *)
(* tick; a budget is the number of ticks after which the loop condition    *)
(* "time.time() - start_time < timeout" turns false.                       *)
(***************************************************************************)
EXTENDS Integers, Sequences, FiniteSets, TLC

(***************************************************************************)
(* Bounds of the model.                                                    *)
(***************************************************************************)
\* ticks in the budget of _call_tool's poll loop (timeout = 30, line 208)
CallTimeout == 3
\* ticks in each of the two bootstrap waits (timeout = 5, lines 81 and 127)
BootTimeout == 2
\* the reader stops appending when the queue holds this many entries
MaxQueue == 2
\* number of gateway calls that generate a request id
MaxCalls == 2
\* number of frames in a response body that the server writes ahead
MaxFrames == 3
\* the lines of a scripted event stream that is written line by line
MaxLines == 4

(***************************************************************************)
(* Python values.  Every value carries its type in field t, so that values *)
(* of different types are comparable (Python's == between them is False).  *)
(* A str is either opaque text that is not valid JSON (Raw), the           *)
(* serialisation of a JSON value (Ser), or the text of a generated UUID.   *)
(***************************************************************************)
None == [t |-> "None"]
JBool(b) == [t |-> "bool", b |-> b]
JNum(n) == [t |-> "int", n |-> n]
Raw(x) == [raw |-> x]
\* the text x with surrounding white space
Padded(x) == [raw |-> x, pad |-> TRUE]
\* str.strip()
strip(s) == IF "pad" \in DOMAIN s THEN Raw(s.raw) ELSE s
Ser(v) == [json |-> v]
JStr(s) == [t |-> "str", s |-> s]
JList(items) == [t |-> "list", items |-> items]
JObj(f) == [t |-> "dict", f |-> f]

IsDict(v) == v.t = "dict"
IsStr(v) == v.t = "str"
HasKey(v, k) == k \in DOMAIN v.f
\* dict.get(k, default)
DictGet(v, k, default) == IF HasKey(v, k) THEN v.f[k] ELSE default

\* outcomes of a step of Python code
Return(v) == [kind |-> "return", value |-> v]
Raise(e) == [kind |-> "raise", exc |-> e]
Continue == [kind |-> "continue"]

\* json.loads(s) for a str s: the value the text serialises, or a decode error
json_loads(s) ==
    IF "json" \in DOMAIN s THEN Return(s.json) ELSE Raise("JSONDecodeError")

\* str(uuid.uuid4()): the n-th identifier generated on this client
uuid4_fixed(n) == JStr([uuid |-> 1])
uuid4(n) == JStr([uuid |-> n])

(***************************************************************************)
(* Python operations used by _call_tool on a dequeued entry.               *)
(***************************************************************************)
EmptyDict == JObj(<<>>)

\* "k in v": key test on a dict, membership on a list, TypeError otherwise
\* (a str container, which tests for a substring, is compared whole)
PyIn(k, v) ==
    CASE v.t = "dict" -> Return(JBool(HasKey(v, k)))
      [] v.t = "list" -> Return(JBool(\E i \in 1..Len(v.items) : v.items[i] = JStr(Raw(k))))
      [] v.t = "str" -> Return(JBool(v.s = Raw(k)))
      [] OTHER -> Raise("TypeError")

\* v[k] for a str key k: the value of a dict, KeyError/TypeError otherwise
PyGetItem(v, k) ==
    IF IsDict(v)
    THEN IF HasKey(v, k) THEN Return(v.f[k]) ELSE Raise("KeyError")
    ELSE Raise("TypeError")

\* len(v) > 0 for the sized types, -1 for a TypeError
PyLen(v) ==
    CASE v.t = "dict" -> Cardinality(DOMAIN v.f)
      [] v.t = "list" -> Len(v.items)
      [] v.t = "str" -> IF v.s = Raw("") THEN 0 ELSE 1
      [] OTHER -> -1

\* v[0]: the first item of a list, the first character of a str,
\* KeyError on a dict (a JSON object has no integer key)
PyFirst(v) ==
    CASE v.t = "list" -> IF Len(v.items) > 0 THEN Return(v.items[1]) ELSE Raise("IndexError")
      [] v.t = "str" -> Return(JStr(Raw("<char>")))
      [] v.t = "dict" -> Raise("KeyError")
      [] OTHER -> Raise("TypeError")

(***************************************************************************)
(* The result mappings _call_tool builds.                                  *)
(***************************************************************************)
Failure(msg) == JObj([success |-> JBool(FALSE), error |-> msg])
\* line 172
ErrNotConnected == Failure(JStr(Raw("MCP connection not established")))
\* line 204
ErrHttpStatus(status) == Failure(JStr([raw |-> "MCP server returned error", status |-> status]))
\* line 236
ErrUnparseable == Failure(JStr(Raw("cannot parse MCP response")))
\* line 243
ErrResponseTimeout == Failure(JStr(Raw("timed out waiting for MCP response")))
\* line 249
ErrRequestTimeout == Failure(JStr(Raw("MCP server request timed out")))
\* line 254
ErrCannotConnect == Failure(JStr(Raw("cannot connect to MCP server")))
\* line 259
ErrCallFailed(e) == Failure(JStr([raw |-> "MCP call failed", exc |-> e]))

\* the except clauses of _call_tool (lines 246-260): every exception raised
\* in the try body is turned into a returned failure mapping
call_tool_except_narrow(outcome) ==
    IF outcome.kind # "raise" THEN outcome
    ELSE CASE outcome.exc = "Timeout" -> Return(ErrRequestTimeout)
           [] outcome.exc = "ConnectionError" -> Return(ErrCannotConnect)
           [] OTHER -> outcome
call_tool_except(outcome) ==
    IF outcome.kind # "raise" THEN outcome
    ELSE CASE outcome.exc = "Timeout" -> Return(ErrRequestTimeout)
           [] outcome.exc = "ConnectionError" -> Return(ErrCannotConnect)
           [] OTHER -> Return(ErrCallFailed(outcome.exc))

\* lines 224-237: unwrap result.content[0].text of a matching response
unwrap_result_any_type(mcp_response) ==
    LET result == DictGet(mcp_response, "result", EmptyDict)
        has == PyIn("content", result)
    IN  IF has.kind = "raise" THEN has
        ELSE IF ~has.value.b THEN Return(ErrUnparseable)
        ELSE LET content == PyGetItem(result, "content")
             IN  IF content.kind = "raise" THEN content
                 ELSE IF PyLen(content.value) < 0 THEN Raise("TypeError")
                 ELSE IF PyLen(content.value) = 0 THEN Return(ErrUnparseable)
                 ELSE LET content_item == PyFirst(content.value)
                      IN  IF content_item.kind = "raise" THEN content_item
                          ELSE IF ~IsDict(content_item.value) THEN Raise("AttributeError")
                          ELSE LET text == DictGet(content_item.value, "text", JStr(Ser(EmptyDict)))
                               IN  IF ~IsStr(text) THEN Raise("TypeError")
                                   ELSE json_loads(text.s)
unwrap_result(mcp_response) ==
    LET result == DictGet(mcp_response, "result", EmptyDict)
        has == PyIn("content", result)
    IN  IF has.kind = "raise" THEN has
        ELSE IF ~has.value.b THEN Return(ErrUnparseable)
        ELSE LET content == PyGetItem(result, "content")
             IN  IF content.kind = "raise" THEN content
                 ELSE IF PyLen(content.value) < 0 THEN Raise("TypeError")
                 ELSE IF PyLen(content.value) = 0 THEN Return(ErrUnparseable)
                 ELSE LET content_item == PyFirst(content.value)
                      IN  IF content_item.kind = "raise" THEN content_item
                          ELSE IF ~IsDict(content_item.value) THEN Raise("AttributeError")
                          ELSE IF DictGet(content_item.value, "type", None) # JStr(Raw("text"))
                               THEN Return(ErrUnparseable)
                          ELSE LET text == DictGet(content_item.value, "text", JStr(Ser(EmptyDict)))
                               IN  IF ~IsStr(text) THEN Raise("TypeError")
                                   ELSE json_loads(text.s)

\* lines 213-237, the try body for one dequeued entry: Continue when the
\* entry is not the call's response, otherwise the value returned or the
\* exception raised
handle_response_any_id(mcp_response, request_id) ==
    IF ~IsDict(mcp_response) THEN Raise("AttributeError")
    ELSE IF HasKey(mcp_response, "error")
         THEN IF ~IsDict(mcp_response.f["error"]) THEN Raise("AttributeError")
              ELSE Return(Failure(DictGet(mcp_response.f["error"], "message",
                                          JStr(Raw("unknown error")))))
         ELSE unwrap_result(mcp_response)
handle_response_result_first(mcp_response, request_id) ==
    IF ~IsDict(mcp_response) THEN Raise("AttributeError")
    ELSE IF DictGet(mcp_response, "id", None) # request_id THEN Continue
    ELSE IF HasKey(mcp_response, "result") THEN unwrap_result(mcp_response)
    ELSE IF HasKey(mcp_response, "error")
         THEN IF ~IsDict(mcp_response.f["error"]) THEN Raise("AttributeError")
              ELSE Return(Failure(DictGet(mcp_response.f["error"], "message",
                                          JStr(Raw("unknown error")))))
         ELSE unwrap_result(mcp_response)
handle_response(mcp_response, request_id) ==
    IF ~IsDict(mcp_response) THEN Raise("AttributeError")
    ELSE IF DictGet(mcp_response, "id", None) # request_id THEN Continue
    ELSE IF HasKey(mcp_response, "error")
         THEN IF ~IsDict(mcp_response.f["error"]) THEN Raise("AttributeError")
              ELSE Return(Failure(DictGet(mcp_response.f["error"], "message",
                                          JStr(Raw("unknown error")))))
         ELSE unwrap_result(mcp_response)

\* lines 276-283 and 299-306: the wrapper logs result.get("success") and
\* returns the gateway's result; result.get raises on a non-dict
wrapper_return(result) ==
    IF IsDict(result) THEN Return(result) ELSE Raise("AttributeError")

(***************************************************************************)
(* What the server can send.  A line of the stream is its prefix and the   *)
(* rest of the line; the server can answer only request ids it has seen    *)
(* in a POST (a UUID cannot be guessed), and the fixed id 1 at any time.   *)
(***************************************************************************)
Threads == {"t1", "t2"}
\* the thread that calls when calls do not overlap
SeqThreads == {"t1"}
Tools == {"query_current_weather", "query_weather_forecast"}
Cities == {"Beijing"}
Statuses == {200, 201, 202, 500}
PostOutcomes == [kind : {"status"}, status : Statuses]
                  \cup [kind : {"raise"}, exc : {"Timeout", "ConnectionError", "RequestException"}]

EndpointPath == "/messages/?session_id=abc123"
OnePath == {Raw(EndpointPath)}

TextContent(s) == JList(<<JObj([type |-> JStr(Raw("text")), text |-> JStr(s)])>>)
ResultMsg(id, result) == JObj([jsonrpc |-> JStr(Raw("2.0")), id |-> id, result |-> result])
ErrorMsg(id, err) == JObj([jsonrpc |-> JStr(Raw("2.0")), id |-> id, error |-> err])
WeatherPayload == JObj([success |-> JBool(TRUE), city |-> JStr(Raw("Beijing"))])
ServerError == JObj([code |-> JNum(-32602), message |-> JStr(Raw("Unknown tool"))])

\* the responses a server gives to the tools/call request with this id: a
\* weather mapping, a payload that is JSON but not a mapping, an error
ToolResponses(id) ==
    { ResultMsg(id, JObj([content |-> TextContent(Ser(WeatherPayload))])),
      ResultMsg(id, JObj([content |-> TextContent(Ser(JList(<<JNum(1)>>)))])),
      ErrorMsg(id, ServerError) }

InitResponse == ResultMsg(JNum(1), JObj([protocolVersion |-> JStr(Raw("2024-11-05"))]))

\* the data: payloads of message events: JSON texts of objects and of a
\* non-object, and a text that is not JSON
MessageTexts(ids) ==
    {Raw("{truncated"), Ser(JNum(5)), Ser(InitResponse)}
      \cup UNION {{Ser(m) : m \in ToolResponses(id)} : id \in ids}

EventLine(name) == [prefix |-> "event: ", rest |-> name]
DataLine(data) == [prefix |-> "data: ", rest |-> data]
BlankLine == [prefix |-> "", rest |-> Raw("")]
CommentLine == [prefix |-> ":", rest |-> Raw(" keepalive")]

\* the lines the server can send next: an endpoint event carries a path, any
\* other data: line carries a message text
Lines(paths, texts, pending) ==
    {EventLine(n) : n \in {Raw("endpoint"), Padded("endpoint"), Raw("message"), Raw("ping")}}
      \cup {DataLine(d) : d \in IF pending = JStr(Raw("endpoint")) THEN paths ELSE texts}
      \cup {BlankLine, CommentLine}

\* the server of the overlapping calls: it accepts every POST with 202 and
\* sends only message events, with the bootstrap response, a weather
\* mapping or an error
AcceptedOutcomes == [kind : {"status"}, status : {202}]
AnswerTexts(ids) ==
    {Ser(InitResponse)}
      \cup UNION {{Ser(ResultMsg(id, JObj([content |-> TextContent(Ser(WeatherPayload))]))),
                   Ser(ErrorMsg(id, ServerError))} : id \in ids}
MessageFrames(texts) == {EventLine(Raw("message"))} \cup {DataLine(d) : d \in texts}
\* the server that writes its whole response body ahead: up to MaxFrames
\* frames, each an endpoint event with a path (the second path ends in
\* white space) or a message event with a text
Paths == {Raw(EndpointPath), Padded(EndpointPath)}
Notification ==
    JObj([jsonrpc |-> JStr(Raw("2.0")), method |-> JStr(Raw("notifications/message"))])
StreamTexts == {Raw("{truncated"), Ser(JNum(5)), Ser(InitResponse), Ser(Notification)}
Frames ==
    {<<EventLine(Raw("endpoint")), DataLine(p)>> : p \in Paths}
      \cup {<<EventLine(Raw("message")), DataLine(d)>> : d \in StreamTexts}
RECURSIVE Scripts(_)
Scripts(n) ==
    IF n = 0 THEN {<<>>}
    ELSE Scripts(n - 1) \cup {s \o f : s \in Scripts(n - 1), f \in Frames}
\* the lines of a stream that need not come in frames: event: lines with
\* known, padded and unknown names, data: lines, and the lines that
\* iter_lines yields without either prefix
StreamLines ==
    {EventLine(Raw("endpoint")), EventLine(Raw("message")),
     EventLine(Padded("message")), EventLine(Raw("ping")),
     DataLine(Raw(EndpointPath)), DataLine(Ser(Notification)),
     BlankLine, CommentLine}
\* the entries a polling call can find in the queue: responses to its own
\* request id in every shape that lines 216-237 tell apart, messages for
\* someone else, and a value that is not an object
TextItem(s) == JObj([type |-> JStr(Raw("text")), text |-> JStr(s)])
ResultWith(id, content) == ResultMsg(id, JObj([content |-> content]))
ErrorNoMessage == JObj([code |-> JNum(-32603)])
OwnEntries(id) ==
    { ErrorMsg(id, ServerError),
      JObj([jsonrpc |-> JStr(Raw("2.0")), id |-> id, error |-> ServerError,
            result |-> JObj([content |-> TextContent(Ser(WeatherPayload))])]),
      ErrorMsg(id, ErrorNoMessage),
      ErrorMsg(id, JStr(Raw("boom"))),
      ErrorMsg(id, None),
      JObj([jsonrpc |-> JStr(Raw("2.0")), id |-> id]),
      ResultMsg(id, EmptyDict),
      ResultMsg(id, None),
      ResultWith(id, JList(<<>>)),
      ResultWith(id, None),
      ResultWith(id, JList(<<JObj([type |-> JStr(Raw("image")), data |-> JStr(Raw("iVBOR"))])>>)),
      ResultWith(id, JList(<<JNum(7)>>)),
      ResultWith(id, JList(<<JObj([type |-> JStr(Raw("text"))])>>)),
      ResultWith(id, JList(<<TextItem(Raw("{truncated"))>>)),
      ResultWith(id, JList(<<TextItem(Ser(WeatherPayload))>>)) }
ForeignEntries == {InitResponse, Notification, JNum(5)}
Entries(id) == OwnEntries(id) \cup ForeignEntries
RECURSIVE SeqsUpTo(_, _)
SeqsUpTo(S, n) ==
    IF n = 0 THEN {<<>>}
    ELSE SeqsUpTo(S, n - 1) \cup {Append(q, e) : q \in SeqsUpTo(S, n - 1), e \in S}
\* the wrapper each thread calls
ToolOf(t) == IF t = "t1" THEN "query_current_weather" ELSE "query_weather_forecast"

(***************************************************************************)
(* State.  The locals of a function that has returned are reset.           *)
(***************************************************************************)
VARIABLES
    message_endpoint,   \* self.message_endpoint: None or the str of the endpoint event
    response_queue,     \* self.response_queue, head first
    current_event,      \* sse_listener's local: None or the str of the last event: line
    sse_state,          \* the reader thread: "connecting", "streaming", "ended"
    boot_pc,            \* where the constructor is in _start_sse_connection/_initialize_mcp,
                        \* "done" when it returned, "raised" when it propagated an exception
    boot_elapsed,       \* ticks since start_time of the current bootstrap wait
    init_endpoint,      \* the endpoint _initialize_mcp read at line 96, or None
    post_count,         \* per method: how many requests were handed to session.post
    last_post,          \* the request handed to session.post last, or None
    next_uuid,          \* number of request ids generated so far
    call_pc,            \* per thread: "idle", "poll", "get", "returned", "raised"
    request_id,         \* per thread: _call_tool's request_id
    status_code,        \* per thread: response.status_code of the call's POST, or None
    mcp_response,       \* per thread: the entry this call dequeued last, or None
    elapsed,            \* per thread: ticks since start_time of the poll loop
    result,             \* per thread: the value _call_tool returned
    sse_body,           \* the lines of the response body that the server has written
                        \* ahead, <<>> for a server that decides each line as it sends it
    sse_pos,            \* how many lines of sse_body iter_lines has yielded
    _mcp_client,        \* the module global: None or the client stored last
    clients,            \* the server_url of every MCPWeatherClient constructed so
                        \* far, in order of construction; client n is [client |-> n]
    gmc_pc,             \* per thread, in get_mcp_client: "idle", "init", "store",
                        \* "return", "returned"
    gmc_url,            \* per thread: the server_url argument of its invocation
    gmc_new,            \* per thread: the client its constructor call is building
    gmc_ret             \* per thread: the client its invocation returned

vars == <<message_endpoint, response_queue, current_event, sse_state, boot_pc,
          boot_elapsed, init_endpoint, post_count, last_post, next_uuid, call_pc,
          request_id, status_code, mcp_response, elapsed, result, sse_body, sse_pos,
          _mcp_client, clients, gmc_pc, gmc_url, gmc_new, gmc_ret>>

reader_vars == <<message_endpoint, response_queue, current_event, sse_state>>
boot_vars == <<boot_pc, boot_elapsed, init_endpoint>>
post_vars == <<post_count, last_post>>
call_vars == <<next_uuid, call_pc, request_id, status_code, mcp_response, elapsed, result>>
stream_vars == <<sse_body, sse_pos>>
singleton_vars == <<_mcp_client, clients, gmc_pc, gmc_url, gmc_new, gmc_ret>>
client_vars == <<reader_vars, boot_vars, post_vars, call_vars, stream_vars>>

\* self.server_url after rstrip('/') (line 24)
server_url == "http://localhost:8001"
\* f"{self.server_url}{self.message_endpoint}" (lines 96 and 177); None is
\* formatted as the text None
Target(endpoint) ==
    [base |-> server_url, path |-> IF IsStr(endpoint) THEN endpoint.s ELSE Raw("None")]

\* the test of line 169 (negated): the endpoint has been received
endpoint_known_always(endpoint) == TRUE
endpoint_known(endpoint) == endpoint # None

\* the tests of lines 125 and 201: the POST was accepted
post_accepted_2xx(status) == status \in 200..299
post_accepted(status) == status = 200 \/ status = 202

Methods == {"initialize", "notifications/initialized", "tools/call"}
\* session.post(endpoint, json=request, ...)
session_post_skipped(request) ==
    UNCHANGED <<post_count, last_post>>
session_post(request) ==
    /\ post_count' = [post_count EXCEPT ![request.method] = @ + 1]
    /\ last_post' = request

\* the ids of the tools/call requests posted so far
PostedIds == {uuid4(n) : n \in 1..next_uuid}

\* lines 310 and 323-329 around the one client whose state the variables
\* above hold: thread t1 found the global None and is inside the
\* constructor call of line 326, or the call returned and the global holds
\* the client
Client(n) == [client |-> n]
InConstructor ==
    /\ _mcp_client = None
    /\ clients = <<server_url>>
    /\ gmc_pc = [t \in Threads |-> IF t = "t1" THEN "store" ELSE "idle"]
    /\ gmc_url = [t \in Threads |-> IF t = "t1" THEN server_url ELSE ""]
    /\ gmc_new = [t \in Threads |-> IF t = "t1" THEN Client(1) ELSE None]
    /\ gmc_ret = [t \in Threads |-> None]
Constructed ==
    /\ _mcp_client = Client(1)
    /\ clients = <<server_url>>
    /\ gmc_pc = [t \in Threads |-> "idle"]
    /\ gmc_url = [t \in Threads |-> ""]
    /\ gmc_new = [t \in Threads |-> None]
    /\ gmc_ret = [t \in Threads |-> None]

Init ==
    /\ message_endpoint = None
    /\ response_queue = <<>>
    /\ current_event = None
    /\ sse_state = "connecting"
    /\ boot_pc = "wait_endpoint"
    /\ boot_elapsed = 0
    /\ init_endpoint = None
    /\ post_count = [m \in Methods |-> 0]
    /\ last_post = None
    /\ next_uuid = 0
    /\ call_pc = [t \in Threads |-> "idle"]
    /\ request_id = [t \in Threads |-> None]
    /\ status_code = [t \in Threads |-> None]
    /\ mcp_response = [t \in Threads |-> None]
    /\ elapsed = [t \in Threads |-> 0]
    /\ result = [t \in Threads |-> None]
    /\ sse_body = <<>>
    /\ sse_pos = 0
    /\ InConstructor

(***************************************************************************)
(* The reader thread, sse_listener (lines 34-74).                          *)
(***************************************************************************)
\* lines 37-45: the GET of <server>/sse succeeds, or raises and ends the thread
sse_connect ==
    /\ sse_state = "connecting"
    /\ sse_state' \in {"streaming", "ended"}
    /\ UNCHANGED <<message_endpoint, response_queue, current_event>>
    /\ UNCHANGED <<boot_vars, post_vars, call_vars>>
    /\ UNCHANGED stream_vars
    /\ UNCHANGED singleton_vars

\* the except clause of lines 68-69: whatever json.loads or put raises is
\* passed over and the loop goes on
message_except_reraise(outcome) == outcome
message_except(outcome) ==
    IF outcome.kind = "raise" THEN Continue ELSE outcome

\* lines 65-69: json.loads of the payload and put, or nothing on a decode error
enqueue_message_lifo(data_str) ==
    IF json_loads(data_str).kind = "return"
    THEN <<json_loads(data_str).value>> \o response_queue
    ELSE response_queue
enqueue_message(data_str) ==
    IF json_loads(data_str).kind = "return"
    THEN Append(response_queue, json_loads(data_str).value)
    ELSE response_queue

\* lines 49-71: one line of response.iter_lines(); an exception that leaves
\* the loop is caught at line 73 and the thread ends
sse_line_sticky_event(line) ==
    /\ sse_state = "streaming"
    /\ IF line.prefix = "event: "
       THEN /\ current_event' = JStr(strip(line.rest))
            /\ UNCHANGED <<message_endpoint, response_queue>>
       ELSE IF line.prefix = "data: "
       THEN /\ IF current_event = JStr(Raw("endpoint"))
               THEN /\ message_endpoint' = JStr(line.rest)
                    /\ UNCHANGED response_queue
               ELSE IF current_event = JStr(Raw("message"))
               THEN /\ response_queue' = enqueue_message(line.rest)
                    /\ Len(response_queue') <= MaxQueue
                    /\ UNCHANGED message_endpoint
               ELSE UNCHANGED <<message_endpoint, response_queue>>
            /\ UNCHANGED current_event
       ELSE UNCHANGED <<message_endpoint, response_queue, current_event>>
    /\ sse_state' = sse_state
    /\ UNCHANGED <<boot_vars, post_vars, call_vars>>
sse_line(line) ==
    /\ sse_state = "streaming"
    /\ IF line.prefix = "event: "
       THEN /\ current_event' = JStr(strip(line.rest))
            /\ UNCHANGED <<message_endpoint, response_queue>>
       ELSE IF line.prefix = "data: "
       THEN /\ IF current_event = JStr(Raw("endpoint"))
               THEN /\ message_endpoint' = JStr(line.rest)
                    /\ UNCHANGED response_queue
               ELSE IF current_event = JStr(Raw("message"))
               THEN /\ response_queue' = enqueue_message(line.rest)
                    /\ Len(response_queue') <= MaxQueue
                    /\ UNCHANGED message_endpoint
               ELSE UNCHANGED <<message_endpoint, response_queue>>
            /\ current_event' = None
       ELSE UNCHANGED <<message_endpoint, response_queue, current_event>>
    /\ sse_state' = IF /\ line.prefix = "data: "
                       /\ current_event = JStr(Raw("message"))
                       /\ message_except(json_loads(line.rest)).kind = "raise"
                    THEN "ended"
                    ELSE sse_state
    /\ UNCHANGED <<boot_vars, post_vars, call_vars>>

\* one iteration of the loop of line 49 on a line the server sends now
sse_recv(line) ==
    /\ sse_line(line)
    /\ UNCHANGED stream_vars
    /\ UNCHANGED singleton_vars

\* one iteration of the loop of line 49 on the next line of a body that the
\* server has written ahead
sse_read ==
    /\ sse_pos < Len(sse_body)
    /\ sse_line(sse_body[sse_pos + 1])
    /\ sse_pos' = sse_pos + 1
    /\ UNCHANGED sse_body
    /\ UNCHANGED singleton_vars

\* the stream closes or a read raises: the loop ends, the thread returns
sse_close ==
    /\ sse_state = "streaming"
    /\ sse_state' = "ended"
    /\ current_event' = None
    /\ UNCHANGED <<message_endpoint, response_queue>>
    /\ UNCHANGED <<boot_vars, post_vars, call_vars>>
    /\ UNCHANGED stream_vars
    /\ UNCHANGED singleton_vars

(***************************************************************************)
(* The constructor: _start_sse_connection (lines 80-91) and                *)
(* _initialize_mcp (lines 93-154).                                         *)
(***************************************************************************)
InitRequest(endpoint) ==
    [method |-> "initialize", id |-> JNum(1), target |-> Target(endpoint), params |-> None]
InitializedNotification(endpoint) ==
    [method |-> "notifications/initialized", id |-> None, target |-> Target(endpoint),
     params |-> None]
ToolsCall(endpoint, id, tool, city) ==
    [method |-> "tools/call", id |-> id, target |-> Target(endpoint),
     params |-> [name |-> tool, arguments |-> [city |-> city]]]

\* lines 83-84: one test of the loop condition, then sleep or leave the loop
start_sse_wait ==
    /\ boot_pc = "wait_endpoint"
    /\ IF message_endpoint = None /\ boot_elapsed < BootTimeout
       THEN /\ boot_elapsed' = boot_elapsed + 1
            /\ UNCHANGED boot_pc
       ELSE /\ boot_pc' = "check_endpoint"
            /\ boot_elapsed' = 0
    /\ UNCHANGED <<init_endpoint, reader_vars, post_vars, call_vars>>
    /\ UNCHANGED stream_vars
    /\ UNCHANGED singleton_vars

\* lines 86-91: without an endpoint the constructor returns, else it initializes
start_sse_check ==
    /\ boot_pc = "check_endpoint"
    /\ boot_pc' = IF message_endpoint = None THEN "done" ELSE "initialize"
    /\ UNCHANGED <<boot_elapsed, init_endpoint, reader_vars, post_vars, call_vars>>
    /\ UNCHANGED stream_vars
    /\ UNCHANGED singleton_vars

\* the except clause of _initialize_mcp (lines 153-154): every exception
\* raised in the try body is printed and the function returns None
initialize_except_requests(outcome) ==
    IF outcome.kind = "raise" /\ outcome.exc \in {"Timeout", "ConnectionError", "RequestException"}
    THEN Return(None)
    ELSE outcome
initialize_except(outcome) ==
    IF outcome.kind = "raise" THEN Return(None) ELSE outcome

\* how __init__ ends when _start_sse_connection ends with this outcome: it
\* returns the client (line 30) or the exception propagates to the caller
boot_end(outcome) == IF outcome.kind = "raise" THEN "raised" ELSE "done"

\* line 132: init_response.get("id") == 1
init_response_matches_any(init_response) ==
    IF ~IsDict(init_response) THEN Raise("AttributeError")
    ELSE Return(JBool(TRUE))
init_response_matches(init_response) ==
    IF ~IsDict(init_response) THEN Raise("AttributeError")
    ELSE Return(JBool(DictGet(init_response, "id", None) = JNum(1)))

\* lines 96-125 and 150-154: POST the initialize request
initialize_post(outcome) ==
    /\ boot_pc = "initialize"
    /\ session_post(InitRequest(message_endpoint))
    /\ IF outcome.kind = "status" /\ post_accepted(outcome.status)
       THEN /\ boot_pc' = "init_poll"
            /\ init_endpoint' = message_endpoint
       ELSE /\ boot_pc' = IF outcome.kind = "raise"
                          THEN boot_end(initialize_except(Raise(outcome.exc)))
                          ELSE "done"
            /\ UNCHANGED init_endpoint
    /\ UNCHANGED <<boot_elapsed, reader_vars, call_vars>>
    /\ UNCHANGED stream_vars
    /\ UNCHANGED singleton_vars

\* lines 129-130 and 147-149: loop condition, empty() test, sleep
initialize_poll ==
    /\ boot_pc = "init_poll"
    /\ IF boot_elapsed >= BootTimeout
       THEN /\ boot_pc' = "done"
            /\ boot_elapsed' = 0
            /\ init_endpoint' = None
       ELSE IF response_queue = <<>>
       THEN /\ boot_elapsed' = boot_elapsed + 1
            /\ UNCHANGED <<boot_pc, init_endpoint>>
       ELSE /\ boot_pc' = "init_get"
            /\ UNCHANGED <<boot_elapsed, init_endpoint>>
    /\ UNCHANGED <<reader_vars, post_vars, call_vars>>
    /\ UNCHANGED stream_vars
    /\ UNCHANGED singleton_vars

\* lines 131-132 and 147: get() blocks while the queue is empty; a non-dict
\* entry raises in .get and the except clause of line 153 ends the bootstrap
initialize_get ==
    /\ boot_pc = "init_get"
    /\ response_queue # <<>>
    /\ response_queue' = Tail(response_queue)
    /\ LET matches == init_response_matches(Head(response_queue))
       IN  IF matches.kind = "raise"
           THEN /\ boot_pc' = boot_end(initialize_except(matches))
                /\ boot_elapsed' = 0
                /\ init_endpoint' = None
           ELSE IF matches.value.b
           THEN /\ boot_pc' = "init_notify"
                /\ boot_elapsed' = 0
                /\ UNCHANGED init_endpoint
           ELSE /\ boot_pc' = "init_poll"
                /\ boot_elapsed' = boot_elapsed + 1
                /\ UNCHANGED init_endpoint
    /\ UNCHANGED <<message_endpoint, current_event, sse_state, post_vars, call_vars>>
    /\ UNCHANGED stream_vars
    /\ UNCHANGED singleton_vars

\* lines 136-146: POST the initialized notification; its status is not
\* looked at and an exception is caught at line 153
initialize_notify(outcome) ==
    /\ boot_pc = "init_notify"
    /\ outcome \in PostOutcomes
    /\ session_post(InitializedNotification(init_endpoint))
    /\ boot_pc' = IF outcome.kind = "raise"
                  THEN boot_end(initialize_except(Raise(outcome.exc)))
                  ELSE "done"
    /\ init_endpoint' = None
    /\ UNCHANGED <<boot_elapsed, reader_vars, call_vars>>
    /\ UNCHANGED stream_vars
    /\ UNCHANGED singleton_vars

(***************************************************************************)
(* A wrapper call: query_current_weather / query_weather_forecast          *)
(* (lines 262-306) around _call_tool (lines 156-260).                      *)
(***************************************************************************)
InCall(t) == call_pc[t] \in {"poll", "get"}

\* _call_tool ends with this outcome: an exception that its except clauses
\* did not turn into a value propagates through the wrapper to the caller;
\* a value is returned to the wrapper, which returns it or raises
finish(t, outcome) ==
    /\ elapsed' = [elapsed EXCEPT ![t] = 0]
    /\ IF outcome.kind = "raise"
       THEN /\ result' = [result EXCEPT ![t] = None]
            /\ call_pc' = [call_pc EXCEPT ![t] = "raised"]
       ELSE /\ result' = [result EXCEPT ![t] = outcome.value]
            /\ call_pc' = [call_pc EXCEPT ![t] =
                  IF wrapper_return(outcome.value).kind = "return" THEN "returned"
                  ELSE "raised"]

\* lines 168-209: the endpoint check, the request and its POST
call_tool_post(t, tool, city, outcome) ==
    /\ boot_pc = "done"
    /\ call_pc[t] = "idle"
    /\ IF ~endpoint_known(message_endpoint)
       THEN /\ finish(t, Return(ErrNotConnected))
            /\ UNCHANGED <<post_vars, next_uuid, request_id, status_code>>
       ELSE /\ next_uuid < MaxCalls
            /\ next_uuid' = next_uuid + 1
            /\ request_id' = [request_id EXCEPT ![t] = uuid4(next_uuid')]
            /\ session_post(ToolsCall(message_endpoint, uuid4(next_uuid'), tool, city))
            /\ status_code' = [status_code EXCEPT ![t] =
                  IF outcome.kind = "raise" THEN None ELSE JNum(outcome.status)]
            /\ IF outcome.kind = "raise"
               THEN finish(t, call_tool_except(outcome))
               ELSE IF ~post_accepted(outcome.status)
               THEN finish(t, Return(ErrHttpStatus(outcome.status)))
               ELSE /\ call_pc' = [call_pc EXCEPT ![t] = "poll"]
                    /\ UNCHANGED <<elapsed, result>>
    /\ UNCHANGED <<mcp_response, reader_vars, boot_vars>>
    /\ UNCHANGED stream_vars
    /\ UNCHANGED singleton_vars

\* lines 211-212 and 239-244: the loop condition, the empty() test, the sleep
call_tool_poll(t) ==
    /\ call_pc[t] = "poll"
    /\ IF elapsed[t] >= CallTimeout
       THEN finish(t, Return(ErrResponseTimeout))
       ELSE IF response_queue = <<>>
       THEN /\ elapsed' = [elapsed EXCEPT ![t] = @ + 1]
            /\ UNCHANGED <<call_pc, result>>
       ELSE /\ call_pc' = [call_pc EXCEPT ![t] = "get"]
            /\ UNCHANGED <<elapsed, result>>
    /\ UNCHANGED <<next_uuid, request_id, status_code, mcp_response>>
    /\ UNCHANGED <<reader_vars, boot_vars, post_vars>>
    /\ UNCHANGED stream_vars
    /\ UNCHANGED singleton_vars

\* lines 213-239: get() blocks while the queue is empty; the entry is
\* handled, and an entry for someone else is dropped before the sleep
call_tool_get_requeue(t) ==
    /\ call_pc[t] = "get"
    /\ response_queue # <<>>
    /\ mcp_response' = [mcp_response EXCEPT ![t] = Head(response_queue)]
    /\ LET outcome == call_tool_except(handle_response(Head(response_queue), request_id[t]))
       IN  IF outcome.kind = "continue"
           THEN /\ response_queue' = Append(Tail(response_queue), Head(response_queue))
                /\ call_pc' = [call_pc EXCEPT ![t] = "poll"]
                /\ elapsed' = [elapsed EXCEPT ![t] = @ + 1]
                /\ UNCHANGED result
           ELSE /\ response_queue' = Tail(response_queue)
                /\ finish(t, outcome)
    /\ UNCHANGED <<next_uuid, request_id, status_code>>
    /\ UNCHANGED <<message_endpoint, current_event, sse_state, boot_vars, post_vars>>
    /\ UNCHANGED stream_vars
    /\ UNCHANGED singleton_vars
call_tool_get_drain(t) ==
    /\ call_pc[t] = "get"
    /\ response_queue # <<>>
    /\ mcp_response' = [mcp_response EXCEPT ![t] = Head(response_queue)]
    /\ LET outcome == call_tool_except(handle_response(Head(response_queue), request_id[t]))
       IN  IF outcome.kind = "continue"
           THEN /\ response_queue' = Tail(response_queue)
                /\ call_pc' = [call_pc EXCEPT ![t] = "poll"]
                /\ elapsed' = [elapsed EXCEPT ![t] = @ + 1]
                /\ UNCHANGED result
           ELSE /\ response_queue' = <<>>
                /\ finish(t, outcome)
    /\ UNCHANGED <<next_uuid, request_id, status_code>>
    /\ UNCHANGED <<message_endpoint, current_event, sse_state, boot_vars, post_vars>>
    /\ UNCHANGED stream_vars
    /\ UNCHANGED singleton_vars
call_tool_get(t) ==
    /\ call_pc[t] = "get"
    /\ response_queue # <<>>
    /\ response_queue' = Tail(response_queue)
    /\ mcp_response' = [mcp_response EXCEPT ![t] = Head(response_queue)]
    /\ LET outcome == call_tool_except(handle_response(Head(response_queue), request_id[t]))
       IN  IF outcome.kind = "continue"
           THEN /\ call_pc' = [call_pc EXCEPT ![t] = "poll"]
                /\ elapsed' = [elapsed EXCEPT ![t] = @ + 1]
                /\ UNCHANGED result
           ELSE finish(t, outcome)
    /\ UNCHANGED <<next_uuid, request_id, status_code>>
    /\ UNCHANGED <<message_endpoint, current_event, sse_state, boot_vars, post_vars>>
    /\ UNCHANGED stream_vars
    /\ UNCHANGED singleton_vars

\* the caller has taken the wrapper's result or exception: the frame of the
\* call is gone and the thread can call again
call_release(t) ==
    /\ call_pc[t] \in {"returned", "raised"}
    /\ call_pc' = [call_pc EXCEPT ![t] = "idle"]
    /\ request_id' = [request_id EXCEPT ![t] = None]
    /\ status_code' = [status_code EXCEPT ![t] = None]
    /\ mcp_response' = [mcp_response EXCEPT ![t] = None]
    /\ result' = [result EXCEPT ![t] = None]
    /\ UNCHANGED <<next_uuid, elapsed, reader_vars, boot_vars, post_vars>>
    /\ UNCHANGED stream_vars
    /\ UNCHANGED singleton_vars

(***************************************************************************)
(* The specification: one client from its construction on, called by one   *)
(* thread, so that calls never overlap.                                    *)
(***************************************************************************)
Next ==
    \/ sse_connect
    \/ \E line \in Lines(OnePath, MessageTexts(PostedIds), current_event) : sse_recv(line)
    \/ sse_close
    \/ start_sse_wait
    \/ start_sse_check
    \/ \E outcome \in PostOutcomes : initialize_post(outcome)
    \/ initialize_poll
    \/ initialize_get
    \/ \E outcome \in PostOutcomes : initialize_notify(outcome)
    \/ \E t \in SeqThreads, tool \in Tools, city \in Cities, outcome \in PostOutcomes :
          call_tool_post(t, tool, city, outcome)
    \/ \E t \in SeqThreads : call_tool_poll(t)
    \/ \E t \in SeqThreads : call_tool_get(t)
    \/ \E t \in SeqThreads : call_release(t)

Spec == Init /\ [][Next]_vars

(***************************************************************************)
(* The specification of overlapping calls: a client whose bootstrap        *)
(* completed (endpoint received, initialize answered, notification sent)   *)
(* is called by two threads at once.                                       *)
(***************************************************************************)
ConcInit ==
    /\ message_endpoint = JStr(Raw(EndpointPath))
    /\ response_queue = <<>>
    /\ current_event = None
    /\ sse_state = "streaming"
    /\ boot_pc = "done"
    /\ boot_elapsed = 0
    /\ init_endpoint = None
    /\ post_count = [m \in Methods |-> IF m = "tools/call" THEN 0 ELSE 1]
    /\ last_post = InitializedNotification(JStr(Raw(EndpointPath)))
    /\ next_uuid = 0
    /\ call_pc = [t \in Threads |-> "idle"]
    /\ request_id = [t \in Threads |-> None]
    /\ status_code = [t \in Threads |-> None]
    /\ mcp_response = [t \in Threads |-> None]
    /\ elapsed = [t \in Threads |-> 0]
    /\ result = [t \in Threads |-> None]
    /\ sse_body = <<>>
    /\ sse_pos = 0
    /\ Constructed

ConcNext ==
    \/ \E line \in MessageFrames(AnswerTexts(PostedIds)) : sse_recv(line)
    \/ sse_close
    \/ \E t \in Threads, city \in Cities, outcome \in AcceptedOutcomes :
          call_tool_post(t, ToolOf(t), city, outcome)
    \/ \E t \in Threads : call_tool_poll(t)
    \/ \E t \in Threads : call_tool_get(t)
    \/ \E t \in Threads : call_release(t)

ConcSpec == ConcInit /\ [][ConcNext]_vars

(***************************************************************************)
(* The specification of the scripted stream: the server has written the    *)
(* whole response body of GET /sse ahead and accepts every tools/call; the *)
(* reader works through the body while the constructor and then one       *)
(* calling thread run.                                                     *)
(***************************************************************************)
StreamInit ==
    /\ message_endpoint = None
    /\ response_queue = <<>>
    /\ current_event = None
    /\ sse_state = "connecting"
    /\ boot_pc = "wait_endpoint"
    /\ boot_elapsed = 0
    /\ init_endpoint = None
    /\ post_count = [m \in Methods |-> 0]
    /\ last_post = None
    /\ next_uuid = 0
    /\ call_pc = [t \in Threads |-> "idle"]
    /\ request_id = [t \in Threads |-> None]
    /\ status_code = [t \in Threads |-> None]
    /\ mcp_response = [t \in Threads |-> None]
    /\ elapsed = [t \in Threads |-> 0]
    /\ result = [t \in Threads |-> None]
    /\ sse_body \in Scripts(MaxFrames)
    /\ sse_pos = 0
    /\ InConstructor

StreamNext ==
    \/ sse_connect
    \/ sse_read
    \/ sse_close
    \/ start_sse_wait
    \/ start_sse_check
    \/ \E outcome \in PostOutcomes : initialize_post(outcome)
    \/ initialize_poll
    \/ initialize_get
    \/ \E outcome \in PostOutcomes : initialize_notify(outcome)
    \/ \E t \in SeqThreads, city \in Cities, outcome \in AcceptedOutcomes :
          call_tool_post(t, ToolOf(t), city, outcome)
    \/ \E t \in SeqThreads : call_tool_poll(t)
    \/ \E t \in SeqThreads : call_tool_get(t)
    \/ \E t \in SeqThreads : call_release(t)

StreamSpec == StreamInit /\ [][StreamNext]_vars

(***************************************************************************)
(* get_mcp_client (lines 310-329) as the request threads of app.py run it: *)
(* the test of the global, the constructor call, the store to the global   *)
(* and the read of the global for the return are separate steps of a       *)
(* thread, and the constructor blocks in the bootstrap between the first   *)
(* and the last of them. What goes on inside each client is left out: the  *)
(* variables of the client stay as they are before any construction.       *)
(***************************************************************************)
ServerUrls == {server_url, "http://weather.internal:8001"}

\* line 325: if _mcp_client is None
get_mcp_client_test(t, url) ==
    /\ gmc_pc[t] = "idle"
    /\ gmc_url' = [gmc_url EXCEPT ![t] = url]
    /\ gmc_pc' = [gmc_pc EXCEPT ![t] = IF _mcp_client = None THEN "init" ELSE "return"]
    /\ gmc_ret' = [gmc_ret EXCEPT ![t] = None]
    /\ UNCHANGED <<_mcp_client, clients, gmc_new>>
    /\ UNCHANGED client_vars

\* line 326, the call: __init__ (lines 17-30) makes the session and the
\* queue of a new client, and _start_sse_connection starts its reader
\* thread, which opens its event stream, and waits for the endpoint
get_mcp_client_init(t) ==
    /\ gmc_pc[t] = "init"
    /\ clients' = Append(clients, gmc_url[t])
    /\ gmc_new' = [gmc_new EXCEPT ![t] = Client(Len(clients'))]
    /\ gmc_pc' = [gmc_pc EXCEPT ![t] = "store"]
    /\ UNCHANGED <<_mcp_client, gmc_url, gmc_ret>>
    /\ UNCHANGED client_vars

\* line 326, the assignment: the constructor returned and the global is
\* stored
get_mcp_client_store(t) ==
    /\ gmc_pc[t] = "store"
    /\ _mcp_client' = gmc_new[t]
    /\ gmc_pc' = [gmc_pc EXCEPT ![t] = "return"]
    /\ UNCHANGED <<clients, gmc_url, gmc_new, gmc_ret>>
    /\ UNCHANGED client_vars

\* line 329: return _mcp_client, read again from the global
get_mcp_client_return(t) ==
    /\ gmc_pc[t] = "return"
    /\ gmc_ret' = [gmc_ret EXCEPT ![t] = _mcp_client]
    /\ gmc_pc' = [gmc_pc EXCEPT ![t] = "returned"]
    /\ UNCHANGED <<_mcp_client, clients, gmc_url, gmc_new>>
    /\ UNCHANGED client_vars

\* app.py line 287 and after: the request used the client and ended; the
\* thread serves another request
get_mcp_client_release(t) ==
    /\ gmc_pc[t] = "returned"
    /\ gmc_pc' = [gmc_pc EXCEPT ![t] = "idle"]
    /\ gmc_url' = [gmc_url EXCEPT ![t] = ""]
    /\ gmc_new' = [gmc_new EXCEPT ![t] = None]
    /\ gmc_ret' = [gmc_ret EXCEPT ![t] = None]
    /\ UNCHANGED <<_mcp_client, clients>>
    /\ UNCHANGED client_vars

SingletonInit ==
    /\ message_endpoint = None
    /\ response_queue = <<>>
    /\ current_event = None
    /\ sse_state = "connecting"
    /\ boot_pc = "wait_endpoint"
    /\ boot_elapsed = 0
    /\ init_endpoint = None
    /\ post_count = [m \in Methods |-> 0]
    /\ last_post = None
    /\ next_uuid = 0
    /\ call_pc = [t \in Threads |-> "idle"]
    /\ request_id = [t \in Threads |-> None]
    /\ status_code = [t \in Threads |-> None]
    /\ mcp_response = [t \in Threads |-> None]
    /\ elapsed = [t \in Threads |-> 0]
    /\ result = [t \in Threads |-> None]
    /\ sse_body = <<>>
    /\ sse_pos = 0
    /\ _mcp_client = None
    /\ clients = <<>>
    /\ gmc_pc = [t \in Threads |-> "idle"]
    /\ gmc_url = [t \in Threads |-> ""]
    /\ gmc_new = [t \in Threads |-> None]
    /\ gmc_ret = [t \in Threads |-> None]

SingletonNext ==
    \/ \E t \in Threads, url \in ServerUrls : get_mcp_client_test(t, url)
    \/ \E t \in Threads : get_mcp_client_init(t)
    \/ \E t \in Threads : get_mcp_client_store(t)
    \/ \E t \in Threads : get_mcp_client_return(t)
    \/ \E t \in Threads : get_mcp_client_release(t)

SingletonSpec == SingletonInit /\ [][SingletonNext]_vars

(***************************************************************************)
(* The specification of the reader alone on a stream written line by      *)
(* line: the bootstrap wait expired before the GET of line 37 returned, so *)
(* nothing but the reader thread runs.                                     *)
(***************************************************************************)
LineInit ==
    /\ message_endpoint = None
    /\ response_queue = <<>>
    /\ current_event = None
    /\ sse_state = "connecting"
    /\ boot_pc = "done"
    /\ boot_elapsed = 0
    /\ init_endpoint = None
    /\ post_count = [m \in Methods |-> 0]
    /\ last_post = None
    /\ next_uuid = 0
    /\ call_pc = [t \in Threads |-> "idle"]
    /\ request_id = [t \in Threads |-> None]
    /\ status_code = [t \in Threads |-> None]
    /\ mcp_response = [t \in Threads |-> None]
    /\ elapsed = [t \in Threads |-> 0]
    /\ result = [t \in Threads |-> None]
    /\ sse_body \in SeqsUpTo(StreamLines, MaxLines)
    /\ sse_pos = 0
    /\ Constructed

LineNext ==
    \/ sse_connect
    \/ sse_read
    \/ sse_close

LineSpec == LineInit /\ [][LineNext]_vars

(***************************************************************************)
(* The specification of the calls made after the reader has ended: the     *)
(* bootstrap completed, the server sent some more messages that nobody     *)
(* was polling for, the stream closed, and only then do the callers start. *)
(***************************************************************************)
LeftOvers == {Notification, JNum(5)}

EndedInit ==
    /\ message_endpoint = JStr(Raw(EndpointPath))
    /\ response_queue \in SeqsUpTo(LeftOvers, MaxQueue)
    /\ current_event = None
    /\ sse_state = "ended"
    /\ boot_pc = "done"
    /\ boot_elapsed = 0
    /\ init_endpoint = None
    /\ post_count = [m \in Methods |-> IF m = "tools/call" THEN 0 ELSE 1]
    /\ last_post = InitializedNotification(JStr(Raw(EndpointPath)))
    /\ next_uuid = 0
    /\ call_pc = [t \in Threads |-> "idle"]
    /\ request_id = [t \in Threads |-> None]
    /\ status_code = [t \in Threads |-> None]
    /\ mcp_response = [t \in Threads |-> None]
    /\ elapsed = [t \in Threads |-> 0]
    /\ result = [t \in Threads |-> None]
    /\ sse_body = <<>>
    /\ sse_pos = 0
    /\ Constructed

EndedNext ==
    \/ \E t \in Threads, city \in Cities, outcome \in AcceptedOutcomes :
          call_tool_post(t, ToolOf(t), city, outcome)
    \/ \E t \in Threads : call_tool_poll(t)
    \/ \E t \in Threads : call_tool_get(t)
    \/ \E t \in Threads : call_release(t)

EndedSpec == EndedInit /\ [][EndedNext]_vars

(***************************************************************************)
(* The specification of one polling call: the bootstrap completed, thread  *)
(* t1 has POSTed its first tools/call, which was accepted, and the reader  *)
(* queued some entries and ended before the call's first look at the       *)
(* queue.                                                                  *)
(***************************************************************************)
EntryInit ==
    /\ message_endpoint = JStr(Raw(EndpointPath))
    /\ response_queue \in SeqsUpTo(Entries(uuid4(1)), MaxQueue) \ {<<>>}
    /\ current_event = None
    /\ sse_state = "ended"
    /\ boot_pc = "done"
    /\ boot_elapsed = 0
    /\ init_endpoint = None
    /\ post_count = [m \in Methods |-> 1]
    /\ last_post = ToolsCall(JStr(Raw(EndpointPath)), uuid4(1), ToolOf("t1"), "Beijing")
    /\ next_uuid = 1
    /\ call_pc = [t \in Threads |-> IF t = "t1" THEN "poll" ELSE "idle"]
    /\ request_id = [t \in Threads |-> IF t = "t1" THEN uuid4(1) ELSE None]
    /\ status_code = [t \in Threads |-> IF t = "t1" THEN JNum(202) ELSE None]
    /\ mcp_response = [t \in Threads |-> None]
    /\ elapsed = [t \in Threads |-> 0]
    /\ result = [t \in Threads |-> None]
    /\ sse_body = <<>>
    /\ sse_pos = 0
    /\ Constructed

EntryNext ==
    \/ \E t \in SeqThreads : call_tool_poll(t)
    \/ \E t \in SeqThreads : call_tool_get(t)
    \/ \E t \in SeqThreads : call_release(t)

EntrySpec == EntryInit /\ [][EntryNext]_vars

(***************************************************************************)
(* Vocabulary of the properties.                                           *)
(***************************************************************************)
\* the wrapper call of thread t has ended, by a return or by an exception
Finished(t) == call_pc[t] \in {"returned", "raised"}
\* thread t takes the step that ends its call
Finishes(t) == call_pc[t] \in {"idle", "poll", "get"} /\ call_pc'[t] \in {"returned", "raised"}
\* thread t takes its dequeue step
Dequeues(t) == call_pc[t] = "get" /\ call_pc'[t] # "get"
\* {"success": False, "error": <a str>}
IsFailureMapping(v) ==
    /\ IsDict(v)
    /\ DOMAIN v.f = {"success", "error"}
    /\ v.f["success"] = JBool(FALSE)
    /\ IsStr(v.f["error"])
\* the id of an entry, None when it has none or is not an object
EntryId(e) == IF IsDict(e) THEN DictGet(e, "id", None) ELSE None
\* e is a response to request id that carries result.content[0] of type
\* text whose text is JSON
IsTextResponse(e, id) ==
    /\ IsDict(e)
    /\ DictGet(e, "id", None) = id
    /\ ~HasKey(e, "error")
    /\ HasKey(e, "result")
    /\ IsDict(e.f["result"])
    /\ HasKey(e.f["result"], "content")
    /\ e.f["result"].f["content"].t = "list"
    /\ Len(e.f["result"].f["content"].items) > 0
    /\ IsDict(e.f["result"].f["content"].items[1])
    /\ DictGet(e.f["result"].f["content"].items[1], "type", None) = JStr(Raw("text"))
    /\ HasKey(e.f["result"].f["content"].items[1], "text")
    /\ IsStr(e.f["result"].f["content"].items[1].f["text"])
    /\ "json" \in DOMAIN e.f["result"].f["content"].items[1].f["text"].s
\* the JSON value that the text of a text response serialises
PayloadOf(e) == e.f["result"].f["content"].items[1].f["text"].s.json
\* the payloads and the error results that come from the server's responses
ServerPayloads == {WeatherPayload, JList(<<JNum(1)>>)}
ServerResults == ServerPayloads \cup {Failure(ServerError.f["message"])}
\* line n of the body is the data line of a message frame
IsMessageData(n) ==
    /\ n \in 2..Len(sse_body)
    /\ sse_body[n].prefix = "data: "
    /\ sse_body[n - 1] = EventLine(Raw("message"))
\* the values that the message frames among the first n lines of the body
\* decode to, in the order of the stream
RECURSIVE Delivered(_)
Delivered(n) ==
    IF n < 2 THEN <<>>
    ELSE IF IsMessageData(n) /\ json_loads(sse_body[n].rest).kind = "return"
    THEN Append(Delivered(n - 1), json_loads(sse_body[n].rest).value)
    ELSE Delivered(n - 1)
\* the first position of the queue that holds an entry with this id, 0 if none
FirstWithId(q, id) ==
    IF \E i \in 1..Len(q) : EntryId(q[i]) = id
    THEN CHOOSE i \in 1..Len(q) : EntryId(q[i]) = id /\ \A j \in 1..(i - 1) : EntryId(q[j]) # id
    ELSE 0

(***************************************************************************)
(* C1.  Every public operation returns a value and never raises: no call   *)
(* of query_current_weather or query_weather_forecast ends by propagating  *)
(* an exception to its caller, whatever the server sends.                  *)
(* Refuted: a response whose text is JSON but not a mapping makes the      *)
(* wrapper's result.get raise.                                             *)
(***************************************************************************)
C1_NeverRaises == \A t \in Threads : call_pc[t] # "raised"

(***************************************************************************)
(* C2.  A gateway call made while the message endpoint is unset returns    *)
(* the connection-not-established failure at once: it makes no POST,       *)
(* dequeues nothing, and leaves the endpoint and the queue unchanged.      *)
(***************************************************************************)
C2_UnsetEndpointFailsFast ==
    [][\A t \in Threads :
          (call_pc[t] = "idle" /\ call_pc'[t] # "idle" /\ message_endpoint = None)
            => /\ call_pc'[t] = "returned"
               /\ result'[t] = ErrNotConnected
               /\ post_count' = post_count
               /\ last_post' = last_post
               /\ mcp_response'[t] = None
               /\ response_queue' = response_queue
               /\ message_endpoint' = message_endpoint]_vars

\* a call has returned the failure while the endpoint is unset and an entry
\* waits in the queue
C2_Witness ==
    \E t \in Threads :
        /\ call_pc[t] = "returned"
        /\ result[t] = ErrNotConnected
        /\ message_endpoint = None
        /\ response_queue # <<>>

(***************************************************************************)
(* C3.  A gateway call whose POST was accepted and whose response (the     *)
(* first entry with its id, a text response) is in the queue when the call *)
(* ends within its budget returns the JSON value decoded from the text,    *)
(* whatever other entries precede the response.                            *)
(* Refuted: a preceding entry that is not an object ends the call with the *)
(* call-failed result.                                                     *)
(***************************************************************************)
C3_ResponseInTimeReturned ==
    [][\A t \in Threads :
          ( /\ InCall(t)
            /\ Finishes(t)
            /\ elapsed[t] < CallTimeout
            /\ FirstWithId(response_queue, request_id[t]) # 0
            /\ IsTextResponse(response_queue[FirstWithId(response_queue, request_id[t])],
                              request_id[t]) )
            => result'[t] =
                 PayloadOf(response_queue[FirstWithId(response_queue, request_id[t])])]_vars

(***************************************************************************)
(* C4.  With at most one call outstanding, a gateway call whose POST was   *)
(* accepted and which never dequeues an entry with its id returns the      *)
(* response-timed-out failure, and its polling never goes past the budget. *)
(* Refuted: dequeuing an entry that is not an object ends the call with    *)
(* the call-failed result instead.                                         *)
(***************************************************************************)
C4_NoMatchTimesOut ==
    [][\A t \in Threads :
          /\ (InCall(t) /\ Finishes(t) /\ EntryId(mcp_response'[t]) # request_id[t])
                => result'[t] = ErrResponseTimeout
          /\ Dequeues(t) => elapsed[t] < CallTimeout
          /\ elapsed'[t] <= CallTimeout]_vars

(***************************************************************************)
(* C5.  Sequential calls on one client receive only their own response:    *)
(* a call that dequeues the response of another call does not end and      *)
(* returns nothing from it, and a call that returns a server payload       *)
(* returns the payload of the text response with its own id that it has    *)
(* just dequeued.                                                          *)
(***************************************************************************)
C5_OwnResponseOnly ==
    [][\A t \in Threads :
          Dequeues(t) =>
            /\ (EntryId(Head(response_queue)) \in PostedIds \ {request_id[t]})
                  => (call_pc'[t] = "poll" /\ result'[t] = None)
            /\ (Finished(t)' /\ result'[t] \in ServerPayloads)
                  => /\ IsTextResponse(Head(response_queue), request_id[t])
                     /\ result'[t] = PayloadOf(Head(response_queue))]_vars

\* the second call has dropped the response of the first and goes on polling
C5_Witness ==
    \E t \in Threads :
        /\ call_pc[t] = "poll"
        /\ request_id[t] = uuid4(2)
        /\ IsTextResponse(mcp_response[t], uuid4(1))

(***************************************************************************)
(* C6.  Calls are never confused: under every interleaving of calls that   *)
(* share the queue, a call that returned a decoded payload or a server     *)
(* error message took it from an entry whose id is its own generated id,   *)
(* which is neither the bootstrap id 1 nor the id of another thread's call.*)
(***************************************************************************)
C6_NeverConfused ==
    \A t \in Threads :
        (Finished(t) /\ result[t] \in ServerResults)
          => /\ IsDict(mcp_response[t])
             /\ DictGet(mcp_response[t], "id", None) = request_id[t]
             /\ request_id[t] # JNum(1)
             /\ \A t2 \in Threads \ {t} : request_id[t2] # request_id[t]

\* a call returned the weather mapping while the call of another thread,
\* which has dequeued and dropped an entry, is still polling
C6_Witness ==
    \E t \in Threads, t2 \in Threads :
        /\ t # t2
        /\ Finished(t)
        /\ result[t] = WeatherPayload
        /\ InCall(t2)
        /\ mcp_response[t2] # None

(***************************************************************************)
(* C7.  If the endpoint is unset when the bootstrap wait expires, so that  *)
(* the constructor returns without initializing, every later gateway call  *)
(* fails fast with the connection-not-established failure and no           *)
(* tools/call request is POSTed, whatever the stream delivers afterwards.  *)
(* Refuted: an endpoint event delivered after the wait sets the endpoint   *)
(* and the next call POSTs.                                                *)
(***************************************************************************)
C7_DegradedFailsFast ==
    (boot_pc = "done" /\ post_count["initialize"] = 0)
      => /\ post_count["tools/call"] = 0
         /\ \A t \in Threads : Finished(t) => result[t] = ErrNotConnected

(***************************************************************************)
(* C8.  Every value returned by a gateway call or a wrapper is a mapping   *)
(* with a boolean success entry, for every response the server can send.   *)
(* Refuted: the decoded text of a response is returned as it is, mapping   *)
(* or not.                                                                 *)
(***************************************************************************)
C8_ResultIsMapping ==
    \A t \in Threads :
        Finished(t) =>
            /\ IsDict(result[t])
            /\ HasKey(result[t], "success")
            /\ result[t].f["success"].t = "bool"

(***************************************************************************)
(* C9.  A gateway call whose POST returns a status other than 200 and 202  *)
(* returns a failure carrying the status without polling: it dequeues no   *)
(* entry and the queue is left as it was.                                  *)
(***************************************************************************)
C9_RejectedPostNoPolling ==
    [][\A t \in Threads :
          ( /\ call_pc[t] = "idle"
            /\ call_pc'[t] # "idle"
            /\ status_code'[t] \notin {None, JNum(200), JNum(202)} )
            => /\ call_pc'[t] = "returned"
               /\ result'[t] = ErrHttpStatus(status_code'[t].n)
               /\ IsFailureMapping(result'[t])
               /\ mcp_response'[t] = None
               /\ response_queue' = response_queue]_vars

\* a call whose POST got 201 has returned the failure, entries still queued
C9_Witness ==
    \E t \in Threads :
        /\ call_pc[t] = "returned"
        /\ status_code[t] = JNum(201)
        /\ result[t] = ErrHttpStatus(201)
        /\ Len(response_queue) = MaxQueue

(***************************************************************************)
(* C10.  The gateway never raises: when the POST fails at network level or *)
(* the handling of a dequeued entry throws, _call_tool returns a mapping   *)
(* with success false and an error string.                                 *)
(***************************************************************************)
C10_GatewayNeverRaises ==
    [][\A t \in Threads :
          ( \/ /\ call_pc[t] = "idle"
               /\ call_pc'[t] # "idle"
               /\ request_id'[t] # None
               /\ status_code'[t] = None
            \/ /\ Dequeues(t)
               /\ handle_response(Head(response_queue), request_id[t]).kind = "raise" )
            => /\ call_pc'[t] = "returned"
               /\ IsFailureMapping(result'[t])]_vars

\* a call has returned the call-failed mapping for the AttributeError that
\* the handling of a dequeued non-object raised
C10_Witness ==
    \E t \in Threads :
        /\ call_pc[t] = "returned"
        /\ mcp_response[t] = JNum(5)
        /\ result[t] = ErrCallFailed("AttributeError")

(***************************************************************************)
(* C11.  The construction of the client always completes without raising:  *)
(* the constructor never propagates an exception, neither of its two waits *)
(* goes past its budget, and its dequeue never finds the queue empty; this *)
(* holds when the endpoint never arrives, when the initialize POST is      *)
(* rejected or fails at network level, when no response with id 1 arrives, *)
(* and when an entry that is not an object is dequeued.                    *)
(***************************************************************************)
C11_BootstrapCompletes ==
    /\ boot_pc # "raised"
    /\ boot_elapsed <= BootTimeout
    /\ boot_pc = "init_get" => response_queue # <<>>

\* the constructor has returned after an initialize POST that was never
\* followed by the notification, and a later call has returned the weather
C11_Witness ==
    /\ boot_pc = "done"
    /\ post_count["initialize"] = 1
    /\ post_count["notifications/initialized"] = 0
    /\ \E t \in Threads : call_pc[t] = "returned" /\ result[t] = WeatherPayload

(***************************************************************************)
(* C12.  When the reader handles the data line of an endpoint event, the   *)
(* message endpoint becomes exactly the text of that line, and every POST  *)
(* made afterwards (initialize, initialized notification, tools/call) goes *)
(* to the server address followed by the text of the latest endpoint       *)
(* event.                                                                  *)
(* Refuted: the notification goes to the target computed before the        *)
(* initialize POST, which a later endpoint event has replaced.             *)
(***************************************************************************)
C12_PostsTargetEndpoint ==
    [][/\ ( /\ sse_pos' = sse_pos + 1
            /\ current_event = JStr(Raw("endpoint"))
            /\ sse_body[sse_pos'].prefix = "data: " )
          => message_endpoint' = JStr(sse_body[sse_pos'].rest)
       /\ post_count' # post_count
          => /\ IsStr(message_endpoint)
             /\ last_post'.target = [base |-> server_url, path |-> message_endpoint.s]]_vars

(***************************************************************************)
(* C13.  Wrapper calls are independent and uncached: a call that starts    *)
(* with the endpoint set makes exactly one new tools/call POST, which      *)
(* carries a request id that no earlier call on the client used, also when *)
(* the city is the same as before; the rest of the call makes no further   *)
(* POST, and a call that returns a server result took it from an entry     *)
(* that it dequeued itself and that carries its own id.                    *)
(***************************************************************************)
C13_CallsIndependent ==
    [][\A t \in Threads :
          /\ (call_pc[t] = "idle" /\ call_pc'[t] # "idle" /\ message_endpoint # None)
                => /\ post_count'["tools/call"] = post_count["tools/call"] + 1
                   /\ last_post'.method = "tools/call"
                   /\ last_post'.id = request_id'[t]
                   /\ request_id'[t] \notin PostedIds
                   /\ \A t2 \in Threads \ {t} : request_id'[t] # request_id[t2]
          /\ (InCall(t) /\ call_pc'[t] # call_pc[t] /\ \A t2 \in Threads \ {t} : call_pc'[t2] = call_pc[t2])
                => post_count' = post_count
          /\ (Finishes(t) /\ result'[t] \in ServerResults)
                => /\ Dequeues(t)
                   /\ EntryId(Head(response_queue)) = request_id[t]]_vars

\* two calls for the same city have both returned the same weather mapping,
\* each after a POST of its own with an id of its own
C13_Witness ==
    /\ post_count["tools/call"] = 2
    /\ \A t \in Threads : call_pc[t] = "returned" /\ result[t] = WeatherPayload
    /\ request_id["t1"] # request_id["t2"]
    /\ EntryId(mcp_response["t1"]) = request_id["t1"]
    /\ EntryId(mcp_response["t2"]) = request_id["t2"]

(***************************************************************************)
(* C14.  A wrapper invokes the gateway once, with one of the two fixed     *)
(* tool names and the arguments {city}: a call makes at most one           *)
(* tools/call POST and none after a failure; and whatever value the        *)
(* gateway returns, the wrapper returns that value to its caller.          *)
(* Refuted: when the gateway returns a decoded payload that is not a       *)
(* mapping, the wrapper raises instead of returning it.                    *)
(***************************************************************************)
C14_WrapperPassesThrough ==
    [][\A t \in SeqThreads :
          /\ (call_pc[t] = "idle" /\ call_pc'[t] # "idle")
                => /\ post_count'["tools/call"] <= post_count["tools/call"] + 1
                   /\ post_count'["tools/call"] = post_count["tools/call"] + 1
                        => /\ last_post'.params.name \in Tools
                           /\ last_post'.params.arguments \in [city : Cities]
          /\ (InCall(t) /\ call_pc'[t] # call_pc[t]) => post_count' = post_count
          /\ (Finishes(t) /\ result'[t] # None) => call_pc'[t] = "returned"]_vars

(***************************************************************************)
(* C15.  The queue is first-in first-out with respect to the stream: in    *)
(* every state, under every interleaving of the reader with the            *)
(* constructor and a polling caller, the queue holds the decoded message   *)
(* frames that the reader has read so far in the order of the stream,      *)
(* without the ones that were dequeued, and those are the earliest ones.   *)
(***************************************************************************)
C15_QueueIsFifo ==
    \E k \in 0..Len(Delivered(sse_pos)) :
        response_queue = SubSeq(Delivered(sse_pos), k + 1, Len(Delivered(sse_pos)))

\* two different messages were delivered; a caller has dequeued the earlier
\* one and the later one is still queued
C15_Witness ==
    /\ Len(Delivered(sse_pos)) = 2
    /\ Delivered(sse_pos)[1] # Delivered(sse_pos)[2]
    /\ mcp_response["t1"] = Delivered(sse_pos)[1]
    /\ response_queue = <<Delivered(sse_pos)[2]>>

(***************************************************************************)
(* C16.  A data line under a message event whose text is not JSON is       *)
(* dropped silently: the step of the reader that handles it leaves the     *)
(* queue and the endpoint as they were, the reader stays in its loop, and  *)
(* it handles the lines that follow.                                       *)
(***************************************************************************)
C16_MalformedDropped ==
    [][( /\ sse_pos' = sse_pos + 1
         /\ current_event = JStr(Raw("message"))
         /\ sse_body[sse_pos'].prefix = "data: "
         /\ json_loads(sse_body[sse_pos'].rest).kind = "raise" )
         => /\ response_queue' = response_queue
            /\ message_endpoint' = message_endpoint
            /\ sse_state' = "streaming"
            /\ current_event' = None]_vars

\* the reader has dropped the text that is not JSON and then queued the
\* message of the frame that followed it
C16_Witness ==
    /\ sse_pos = 4
    /\ IsMessageData(2)
    /\ json_loads(sse_body[2].rest).kind = "raise"
    /\ IsMessageData(4)
    /\ response_queue = <<Notification>>
    /\ sse_state = "streaming"

C18_EveryWaitHasBudget ==
    \A t \in Threads :
        /\ call_pc[t] = "get" => response_queue # <<>>
        /\ elapsed[t] <= CallTimeout

(***************************************************************************)
(* C19.  In every reachable state every entry of the queue is a JSON-RPC   *)
(* message object: a payload that decodes to anything else is dropped by   *)
(* the reader and never queued.                                            *)
(* Refuted: the reader queues whatever json.loads returns.                 *)
(***************************************************************************)
C19_QueueHoldsObjects ==
    \A i \in 1..Len(response_queue) :
        /\ IsDict(response_queue[i])
        /\ DictGet(response_queue[i], "jsonrpc", None) = JStr(Raw("2.0"))

(***************************************************************************)
(* C20.  The message endpoint is written at most once: once it is set, no  *)
(* step changes it, whatever endpoint events follow on the stream.         *)
(* Refuted: every endpoint event overwrites it.                            *)
(***************************************************************************)
C20_EndpointWrittenOnce ==
    [][message_endpoint # None => message_endpoint' = message_endpoint]_vars

(***************************************************************************)
(* C21.  Bootstrap ordering.  The initialize request is POSTed only when   *)
(* the endpoint is set.  The wait for its response is entered only when    *)
(* the POST returned 200 or 202.  The initialized notification is POSTed   *)
(* at most once, by the step that follows the dequeue, within the wait, of *)
(* an entry whose id is 1.  Once the constructor has returned without      *)
(* sending it, the notification is never sent, whatever arrives later.     *)
(***************************************************************************)
C21_BootstrapOrdering ==
    [][/\ post_count'["initialize"] # post_count["initialize"]
          => /\ message_endpoint # None
             /\ post_count["initialize"] = 0
             /\ last_post' = InitRequest(message_endpoint)
       /\ \A outcome \in PostOutcomes :
            (initialize_post(outcome) /\ boot_pc' = "init_poll")
              => (outcome.kind = "status" /\ outcome.status \in {200, 202})
       /\ (boot_pc # "init_notify" /\ boot_pc' = "init_notify")
          => /\ boot_pc = "init_get"
             /\ boot_elapsed < BootTimeout
             /\ post_count["initialize"] = 1
             /\ EntryId(Head(response_queue)) = JNum(1)
             /\ response_queue' = Tail(response_queue)
       /\ post_count'["notifications/initialized"] # post_count["notifications/initialized"]
          => /\ boot_pc = "init_notify"
             /\ post_count["notifications/initialized"] = 0
             /\ post_count'["notifications/initialized"] = 1
       /\ boot_pc = "done"
          => /\ boot_pc' = "done"
             /\ post_count'["initialize"] = post_count["initialize"]
             /\ post_count'["notifications/initialized"]
                  = post_count["notifications/initialized"]]_vars

\* the constructor has returned without sending the notification, its wait
\* being over, and the response to the initialize request arrived afterwards
C21_Witness ==
    /\ boot_pc = "done"
    /\ post_count["initialize"] = 1
    /\ post_count["notifications/initialized"] = 0
    /\ response_queue # <<>>
    /\ Head(response_queue) = InitResponse
    /\ \E t \in Threads : call_pc[t] = "returned"

(***************************************************************************)
(* C22.  Dequeued entries are never put back: the queue changes only by    *)
(* the reader appending one entry at the tail or by a consumer (the        *)
(* bootstrap wait or a gateway call in its dequeue step) removing the      *)
(* head, whether or not the id of the removed entry matches.               *)
(***************************************************************************)
C22_NeverRequeued ==
    [][response_queue' # response_queue
         => \/ /\ sse_pos' = sse_pos + 1
               /\ Len(response_queue') = Len(response_queue) + 1
               /\ SubSeq(response_queue', 1, Len(response_queue)) = response_queue
            \/ /\ sse_pos' = sse_pos
               /\ response_queue # <<>>
               /\ response_queue' = Tail(response_queue)
               /\ \/ boot_pc = "init_get" /\ boot_pc' # "init_get"
                  \/ \E t \in Threads : Dequeues(t)]_vars

\* a call polls on after it dequeued a notification, which has no id: the
\* reader has read the whole body, the queue is empty, the entry is gone
C22_Witness ==
    /\ call_pc["t1"] = "poll"
    /\ mcp_response["t1"] = Notification
    /\ response_queue = <<>>
    /\ sse_pos = Len(sse_body)

(***************************************************************************)
(* C23.  A response that is queued when its call has already returned the  *)
(* timeout failure is lost: the result of the returned call stays the      *)
(* timeout failure; a later call that dequeues the response of an earlier  *)
(* call drops it, returns nothing from it and polls on; and while no call  *)
(* dequeues, the entries stay in the queue.                                *)
(***************************************************************************)
C23_LateResponseLost ==
    [][/\ \A t \in Threads :
            /\ (call_pc[t] = "returned" /\ call_pc'[t] = "returned")
                  => result'[t] = result[t]
            /\ (Dequeues(t) /\ EntryId(Head(response_queue)) \in PostedIds \ {request_id[t]})
                  => /\ call_pc'[t] = "poll"
                     /\ result'[t] = None
                     /\ response_queue' = Tail(response_queue)
       /\ (boot_pc = "done" /\ \A t \in Threads : ~Dequeues(t))
            => /\ Len(response_queue') >= Len(response_queue)
               /\ SubSeq(response_queue', 1, Len(response_queue)) = response_queue]_vars

\* the call has returned the timeout failure without having dequeued
\* anything, and the text response with its id is in the queue
C23_Witness ==
    \E t \in Threads :
        /\ call_pc[t] = "returned"
        /\ result[t] = ErrResponseTimeout
        /\ mcp_response[t] = None
        /\ response_queue # <<>>
        /\ IsTextResponse(Head(response_queue), request_id[t])

\* C24: when a call dequeues an entry that carries its own id and an error
\* field, the call ends on that step by returning a failure mapping, and the
\* result field of the entry is never unwrapped, even when the entry carries
\* a well-formed one; when the error field is an object the returned error
\* is its message (the "unknown error" text when it has none).
C24_ErrorTakesPrecedence ==
    [][\A t \in Threads :
         LET e == Head(response_queue)
         IN  (/\ Dequeues(t)
              /\ IsDict(e)
              /\ EntryId(e) = request_id[t]
              /\ HasKey(e, "error"))
               => /\ call_pc'[t] = "returned"
                  /\ mcp_response'[t] = e
                  /\ IsFailureMapping(result'[t])
                  /\ result'[t] \notin ServerPayloads
                  /\ result'[t] # ErrUnparseable
                  /\ result'[t] # ErrResponseTimeout
                  /\ IsDict(e.f["error"])
                       => result'[t] = Failure(DictGet(e.f["error"], "message",
                                                       JStr(Raw("unknown error"))))
                  /\ (IsDict(e.f["error"]) /\ HasKey(e.f["error"], "message"))
                       => result'[t] = Failure(e.f["error"].f["message"])]_vars
\* a call returned the server's error message from an entry that also
\* carried a well-formed text result
C24_Witness ==
    \E t \in Threads :
        /\ call_pc[t] = "returned"
        /\ IsDict(mcp_response[t])
        /\ EntryId(mcp_response[t]) = request_id[t]
        /\ HasKey(mcp_response[t], "error")
        /\ HasKey(mcp_response[t], "result")
        /\ mcp_response[t].f["result"] = JObj([content |-> TextContent(Ser(WeatherPayload))])
        /\ result[t] = Failure(ServerError.f["message"])

\* an entry without an error field whose result is missing, or is an object
\* without content, or with an empty content list, or with a content list
\* whose first item is an object of a type other than "text"
HasNoTextContent(e) ==
    /\ IsDict(e)
    /\ ~HasKey(e, "error")
    /\ \/ ~HasKey(e, "result")
       \/ /\ IsDict(e.f["result"])
          /\ \/ ~HasKey(e.f["result"], "content")
             \/ /\ e.f["result"].f["content"].t = "list"
                /\ \/ Len(e.f["result"].f["content"].items) = 0
                   \/ /\ IsDict(e.f["result"].f["content"].items[1])
                      /\ DictGet(e.f["result"].f["content"].items[1], "type", None)
                           # JStr(Raw("text"))

\* C25: when a call dequeues an entry that carries its own id, no error
\* field, and no text content (result missing, content missing, content
\* empty, or content[0] of another type), the call ends on that step and
\* returns the unable-to-parse failure: it neither goes back to polling nor
\* returns the timeout failure.
C25_UnparseableEndsCall ==
    [][\A t \in Threads :
         (/\ Dequeues(t)
          /\ EntryId(Head(response_queue)) = request_id[t]
          /\ HasNoTextContent(Head(response_queue)))
           => /\ call_pc'[t] = "returned"
              /\ result'[t] = ErrUnparseable
              /\ result'[t] # ErrResponseTimeout
              /\ response_queue' = Tail(response_queue)]_vars
\* a call returned the unable-to-parse failure for a response to its own
\* request whose first content item is an image, with another entry
\* still behind it in the queue
C25_Witness ==
    \E t \in Threads :
        /\ call_pc[t] = "returned"
        /\ result[t] = ErrUnparseable
        /\ EntryId(mcp_response[t]) = request_id[t]
        /\ HasNoTextContent(mcp_response[t])
        /\ HasKey(mcp_response[t], "result")
        /\ HasKey(mcp_response[t].f["result"], "content")
        /\ Len(mcp_response[t].f["result"].f["content"].items) = 1
        /\ response_queue # <<>>

\* the event that governs line n + 1 of the body: the name, stripped, of the
\* event: line met first when going back from line n over the lines that are
\* neither event: nor data: lines; None when a data: line or the start of
\* the body is met first
RECURSIVE PendingEvent(_)
PendingEvent(n) ==
    IF n = 0 THEN None
    ELSE IF sse_body[n].prefix = "event: " THEN JStr(strip(sse_body[n].rest))
    ELSE IF sse_body[n].prefix = "data: " THEN None
    ELSE PendingEvent(n - 1)

\* C26: reader framing. When the reader takes a data: line, what it does
\* follows the event: line seen most recently since the previous data: line:
\* "endpoint" stores the payload as the endpoint, "message" hands the payload
\* to the queue, any other name or no pending event changes neither; after
\* the data: line current_event is None, so an event: line governs at most
\* one data: line. An event: line changes neither endpoint nor queue, and a
\* blank or unprefixed line changes no reader state, current_event included.
C26_ReaderFraming ==
    [][sse_pos' = sse_pos + 1 =>
         LET line == sse_body[sse_pos']
             pending == PendingEvent(sse_pos)
         IN  /\ line.prefix = "data: " =>
                  /\ current_event' = None
                  /\ pending = JStr(Raw("endpoint")) =>
                       /\ message_endpoint' = JStr(line.rest)
                       /\ response_queue' = response_queue
                  /\ pending = JStr(Raw("message")) =>
                       /\ message_endpoint' = message_endpoint
                       /\ response_queue' = enqueue_message(line.rest)
                  /\ pending \notin {JStr(Raw("endpoint")), JStr(Raw("message"))} =>
                       /\ message_endpoint' = message_endpoint
                       /\ response_queue' = response_queue
             /\ line.prefix = "event: " =>
                  /\ message_endpoint' = message_endpoint
                  /\ response_queue' = response_queue
             /\ line.prefix \notin {"data: ", "event: "} =>
                  /\ message_endpoint' = message_endpoint
                  /\ response_queue' = response_queue
                  /\ current_event' = current_event
                  /\ sse_state' = sse_state]_vars
\* the reader took "event: message", a comment line, a data: line and a
\* second data: line: the first payload is queued under the event that the
\* comment line left pending, the second changed nothing
C26_Witness ==
    /\ sse_pos = 4
    /\ sse_body[1] = EventLine(Raw("message"))
    /\ sse_body[2] = CommentLine
    /\ sse_body[3] = DataLine(Ser(Notification))
    /\ sse_body[4] = DataLine(Raw(EndpointPath))
    /\ response_queue = <<Notification>>
    /\ message_endpoint = None
    /\ current_event = None

\* C27: the reader is never restarted. Once it has ended it stays ended, no
\* step appends to the queue or changes the endpoint, and every call made
\* from then on whose POST was accepted ends by returning the timeout
\* failure. Refuted in its last part: a value that is not an object, left in
\* the queue by the reader, ends such a call with the call-failed failure.
C27_ReaderNeverRestarted ==
    [][sse_state = "ended" =>
         /\ sse_state' = "ended"
         /\ message_endpoint' = message_endpoint
         /\ \/ response_queue' = response_queue
            \/ response_queue # <<>> /\ response_queue' = Tail(response_queue)
         /\ \A t \in Threads :
              (call_pc[t] \in {"poll", "get"} /\ Finishes(t))
                => /\ call_pc'[t] = "returned"
                   /\ result'[t] = ErrResponseTimeout]_vars

\* C28: a call whose POST was accepted ends before its budget is spent only
\* by dequeuing an entry that carries its own id: when it dequeues any other
\* entry (another id, no id, or a value that is not a response) the call
\* does not end and goes on polling. Refuted: a dequeued value that is not
\* an object ends the call with the call-failed failure.
C28_OnlyOwnEntryEndsCall ==
    [][\A t \in Threads :
         /\ (call_pc[t] \in {"poll", "get"} /\ Finishes(t) /\ elapsed[t] < CallTimeout)
              => /\ Dequeues(t)
                 /\ EntryId(Head(response_queue)) = request_id[t]
         /\ (Dequeues(t) /\ EntryId(Head(response_queue)) # request_id[t])
              => /\ call_pc'[t] = "poll"
                 /\ result'[t] = None]_vars

\* C29: no tools/call request is POSTed on a client whose initialize request
\* was never POSTed. Refuted: the endpoint event can arrive after the
\* bootstrap wait gave up, and from then on calls POST to a session that
\* was never initialized.
C29_NoCallWithoutInitialize ==
    post_count["tools/call"] > 0 => post_count["initialize"] > 0

\* C30: get_mcp_client constructs at most one client, with its one event
\* stream and reader thread, under any interleaving of invocations, and all
\* invocations return that same client whatever server_url they passed.
\* Refuted: two threads that both test the global before either has stored
\* it each construct a client.
C30_OneClientPerProcess ==
    /\ Len(clients) <= 1
    /\ \A t \in Threads :
         gmc_pc[t] = "returned" => gmc_ret[t] = Client(1)

\* C31: a call stops consuming when it dequeues the entry that carries its
\* own id: that step removes the head of the queue and nothing else and ends
\* the call, and while the call stays ended, with no reader and no other
\* caller running, the queue does not change, so the entries that were
\* behind the matching one stay in the queue in their order.
C31_StopsAtMatchingEntry ==
    [][\A t \in SeqThreads :
         /\ (/\ Dequeues(t)
             /\ IsDict(Head(response_queue))
             /\ EntryId(Head(response_queue)) = request_id[t])
              => /\ call_pc'[t] \in {"returned", "raised"}
                 /\ mcp_response'[t] = Head(response_queue)
                 /\ response_queue' = Tail(response_queue)
         /\ call_pc[t] \in {"returned", "raised"}
              => response_queue' = response_queue]_vars
\* a call returned the payload of its own response while the entry that was
\* queued behind that response is still in the queue
C31_Witness ==
    \E t \in SeqThreads :
        /\ call_pc[t] = "returned"
        /\ IsTextResponse(mcp_response[t], request_id[t])
        /\ result[t] = WeatherPayload
        /\ response_queue = <<Notification>>

====
